---------------------------- MODULE Spec2Model ----------------------------
(***************************************************************************)
(* The stories duck of ts/state/ducks/stories.ts: the store                *)
(* (StoriesStateType), the reducer that folds deltas into it, and the      *)
(* thunks (deleteStoryForEveryone, markStoryRead, ...) that read the       *)
(* store, call collaborators and dispatch deltas.                          *)
(*                                                                         *)
(* Optional values (a?: T) are sequences of length at most one: None is    *)
(* undefined and Some(x) a present x.                                      *)
(***************************************************************************)
EXTENDS Integers, Sequences, FiniteSets, TLC

VARIABLES
  state,      \* the stories slice of the redux store (StoriesStateType)
  last,       \* the last step: who took it, the delta it dispatched, the calls it made
  tasks,      \* the asynchronous thunks in flight, each suspended at an await
  env         \* the collaborators' state: the clock and whether this is the primary device

vars == <<state, last, tasks, env>>

None == <<>>
Some(x) == <<x>>
IsSome(o) == o # <<>>
Get(o) == o[1]

---------------------------------------------------------------------------
(* Bounds of the model. *)

MaxTimestamp == 2
MaxReplies == 3
MaxClock == 2

MessageIds == {"m1", "m2", "m3"}
ConversationIds == {"X", "Y", "Z"}
DistributionLists == {"L1", "L2"}
Timestamps == 1..MaxTimestamp
ReadStatuses == {"Unread", "Viewed"}
Paths == {"p"}
ReplyIds == {"r1", "r2"}
Bodies == {"a", "b"}

---------------------------------------------------------------------------
(* Attachments (types/Attachment). *)

getAbsoluteAttachmentPath(path) == "/abs/" \o path

Attachment(dl, path, url) == [download |-> dl, path |-> path, url |-> url]

isDownloaded(att) == IsSome(att) /\ Get(att).download = "downloaded"

isDownloading(att) == IsSome(att) /\ Get(att).download = "downloading"

hasNotResolved(att) == IsSome(att) /\ ~IsSome(Get(att).url)

(* The attachments a story payload arrives with. *)
Attachments ==
  { None,
    Some(Attachment("notDownloaded", None, None)),
    Some(Attachment("downloading", None, None)),
    Some(Attachment("downloaded", Some("p"), None)) }

---------------------------------------------------------------------------
(* StoryDataType and the store. `reactions` is the length of the reactions array, the
   one thing the duck reads of it. The picked fields the duck only copies
   (canReplyToStory, conversationId, source, sourceUuid, type) are left out: timestamp
   and storyDistributionListId stand for a field that is copied and otherwise only
   read, respectively, by the sort and by nothing. *)

Story(id, ts, att, read, reacts, del, send, list) ==
  [ messageId |-> id, timestamp |-> ts, attachment |-> att, readStatus |-> read,
    reactions |-> reacts, deletedForEveryone |-> del,
    sendStateByConversationId |-> send, storyDistributionListId |-> list ]

(* A reply (MessageAttributesType): its id, the story it replies to, its content. *)
Message(id, storyId, body) == [id |-> id, storyId |-> storyId, body |-> body]

getEmptyState == [ isShowingStoriesView |-> FALSE, replyState |-> None, stories |-> <<>> ]

Indices(seq) == 1..Len(seq)

(* Array.prototype.findIndex, given the test's answer for each element: the first index
   whose element passes, 0 when none does (the source's -1; indices here start at 1). *)
findIndex(answers) ==
  IF \E i \in DOMAIN answers : answers[i]
  THEN CHOOSE i \in DOMAIN answers : answers[i] /\ \A j \in 1..(i - 1) : ~answers[j]
  ELSE 0

replaceIndex(seq, index, value) == [seq EXCEPT ![index] = value]

IsSortedByTimestamp(seq) ==
  \A i, j \in Indices(seq) : i < j => seq[i].timestamp <= seq[j].timestamp

Arrangements(seq) ==
  { [i \in Indices(seq) |-> seq[p[i]]] :
      p \in { q \in [Indices(seq) -> Indices(seq)] : \A i, j \in Indices(seq) : i # j => q[i] # q[j] } }

(* [...stories].sort((a, b) => a.timestamp > b.timestamp ? 1 : -1): the comparator never
   answers 0, so for equal timestamps it is not a consistent comparator and the order of
   the tied elements is implementation-defined: every timestamp-sorted arrangement is a
   possible outcome. *)
sortByTimestamp(seq) == { s \in Arrangements(seq) : IsSortedByTimestamp(s) }

---------------------------------------------------------------------------
(* Deltas (StoriesActionType, and the NOOP marker of ducks/noop). *)

ToggleView == [type |-> "TOGGLE_VIEW"]
MessageDeleted(id) == [type |-> "MESSAGE_DELETED", id |-> id]
storyChanged(story) == [type |-> "STORY_CHANGED", payload |-> story]
MarkStoryRead(id) == [type |-> "MARK_STORY_READ", payload |-> id]
LoadStoryReplies(id, replies) ==
  [type |-> "LOAD_STORY_REPLIES", messageId |-> id, replies |-> replies]
MessageChanged(data) == [type |-> "MESSAGE_CHANGED", id |-> data.id, data |-> data]
ReplyToStory(data) == [type |-> "REPLY_TO_STORY", payload |-> data]
ResolveAttachmentUrl(id, url) ==
  [type |-> "RESOLVE_ATTACHMENT_URL", messageId |-> id, attachmentUrl |-> url]
DOEStory(id) == [type |-> "DOE_STORY", payload |-> id]
Noop == [type |-> "NOOP"]

---------------------------------------------------------------------------
(* The reducer. A result is the state returned and whether it is the very object the
   reducer was given (`return state`) or a fresh one (`return {...state, ...}`). *)

Same(s) == [state |-> s, same |-> TRUE]
Fresh(s) == [state |-> s, same |-> FALSE]

(* shouldReplace with hasAttachmentDownloaded forgetting the stored story. *)
shouldReplace_AnyDownloaded(prevStory, newStory) ==
  \/ isDownloading(newStory.attachment)
  \/ isDownloaded(newStory.attachment)
  \/ (~prevStory.deletedForEveryone /\ newStory.deletedForEveryone)
  \/ prevStory.sendStateByConversationId # newStory.sendStateByConversationId
  \/ prevStory.readStatus # newStory.readStatus
  \/ prevStory.reactions # newStory.reactions

shouldReplace(prevStory, newStory) ==
  LET isDownloadingAttachment == isDownloading(newStory.attachment)
      hasAttachmentDownloaded ==
        ~isDownloaded(prevStory.attachment) /\ isDownloaded(newStory.attachment)
      readStatusChanged == prevStory.readStatus # newStory.readStatus
      reactionsChanged == prevStory.reactions # newStory.reactions
      hasBeenDeleted == ~prevStory.deletedForEveryone /\ newStory.deletedForEveryone
      hasSendStateChanged ==
        prevStory.sendStateByConversationId # newStory.sendStateByConversationId
  IN  \/ isDownloadingAttachment
      \/ hasAttachmentDownloaded
      \/ hasBeenDeleted
      \/ hasSendStateChanged
      \/ readStatusChanged
      \/ reactionsChanged

(* prevStoryIndex comparing the stored story's distribution list id, not its messageId,
   with the id. *)
prevStoryIndex_ComparingListId(stories, messageId) ==
  findIndex([i \in Indices(stories) |-> stories[i].storyDistributionListId = messageId])

prevStoryIndex(stories, messageId) ==
  findIndex([i \in Indices(stories) |-> stories[i].messageId = messageId])

reduceToggleView(s) == { Fresh([s EXCEPT !.isShowingStoriesView = ~s.isShowingStoriesView]) }

(* MESSAGE_DELETED with the filter's test inverted. *)
reduceMessageDeleted_KeepingMatch(s, a) ==
  LET Keep(story) == story.messageId = a.id
      nextStories == SelectSeq(s.stories, Keep)
  IN  IF Len(nextStories) = Len(s.stories)
      THEN { Same(s) }
      ELSE { Fresh([s EXCEPT !.stories = nextStories]) }

reduceMessageDeleted(s, a) ==
  LET Keep(story) == story.messageId # a.id
      nextStories == SelectSeq(s.stories, Keep)
  IN  IF Len(nextStories) = Len(s.stories)
      THEN { Same(s) }
      ELSE { Fresh([s EXCEPT !.stories = nextStories]) }

(* addStory without the sort. *)
addStory_Unsorted(s, newStory) == { Fresh([s EXCEPT !.stories = Append(s.stories, newStory)]) }

addStory(s, newStory) ==
  { Fresh([s EXCEPT !.stories = sorted]) : sorted \in sortByTimestamp(Append(s.stories, newStory)) }

(* STORY_CHANGED sorting again after replacing a stored story. *)
reduceStoryChanged_Resorting(s, a) ==
  LET newStory == a.payload
      index == prevStoryIndex(s.stories, newStory.messageId)
  IN  IF index >= 1
      THEN IF ~shouldReplace(s.stories[index], newStory)
           THEN { Same(s) }
           ELSE { Fresh([s EXCEPT !.stories = sorted]) :
                    sorted \in sortByTimestamp(replaceIndex(s.stories, index, newStory)) }
      ELSE addStory(s, newStory)

reduceStoryChanged(s, a) ==
  LET newStory == a.payload
      index == prevStoryIndex(s.stories, newStory.messageId)
  IN  IF index >= 1
      THEN IF ~shouldReplace(s.stories[index], newStory)
           THEN { Same(s) }
           ELSE { Fresh([s EXCEPT !.stories = replaceIndex(s.stories, index, newStory)]) }
      ELSE addStory(s, newStory)

(* MARK_STORY_READ marking every story, whatever its messageId. *)
reduceMarkStoryRead_MarkingAll(s, a) ==
  { Fresh([s EXCEPT !.stories =
      [i \in Indices(s.stories) |-> [s.stories[i] EXCEPT !.readStatus = "Viewed"]]]) }

reduceMarkStoryRead(s, a) ==
  { Fresh([s EXCEPT !.stories =
      [i \in Indices(s.stories) |->
         IF s.stories[i].messageId = a.payload
         THEN [s.stories[i] EXCEPT !.readStatus = "Viewed"]
         ELSE s.stories[i]]]) }

(* RESOLVE_ATTACHMENT_URL writing the url over the attachment's path. *)
reduceResolveAttachmentUrl_IntoPath(s, a) ==
  LET storyIndex == prevStoryIndex(s.stories, a.messageId)
  IN  IF storyIndex < 1 \/ ~IsSome(s.stories[storyIndex].attachment)
      THEN { Same(s) }
      ELSE { Fresh([s EXCEPT !.stories[storyIndex].attachment =
               Some([Get(s.stories[storyIndex].attachment) EXCEPT !.path = Some(a.attachmentUrl)])]) }

reduceResolveAttachmentUrl(s, a) ==
  LET storyIndex == prevStoryIndex(s.stories, a.messageId)
  IN  IF storyIndex < 1
      THEN { Same(s) }
      ELSE LET story == s.stories[storyIndex]
           IN  IF ~IsSome(story.attachment)
               THEN { Same(s) }
               ELSE LET storyWithResolvedAttachment ==
                          [story EXCEPT !.attachment =
                             Some([Get(story.attachment) EXCEPT !.url = Some(a.attachmentUrl)])]
                    IN  { Fresh([s EXCEPT !.stories =
                            replaceIndex(s.stories, storyIndex, storyWithResolvedAttachment)]) }

reduceDOEStory(s, a) ==
  LET index == prevStoryIndex(s.stories, a.payload)
  IN  IF index < 1
      THEN { Same(s) }
      ELSE { Fresh([s EXCEPT !.stories =
               replaceIndex(s.stories, index,
                            [s.stories[index] EXCEPT !.deletedForEveryone = TRUE])]) }

(* LOAD_STORY_REPLIES adding the fetched replies to those of the thread there is. *)
reduceLoadStoryReplies_KeepingReplies(s, a) ==
  { Fresh([s EXCEPT !.replyState =
      Some([ messageId |-> a.messageId,
             replies |-> (IF IsSome(s.replyState) THEN Get(s.replyState).replies ELSE <<>>)
                           \o a.replies ])]) }

reduceLoadStoryReplies(s, a) ==
  { Fresh([s EXCEPT !.replyState = Some([messageId |-> a.messageId, replies |-> a.replies])]) }

(* MESSAGE_CHANGED appending whether or not the reply is there. *)
reduceMessageChanged_AlwaysAppend(s, a) ==
  { Fresh([s EXCEPT !.replyState =
      Some([messageId |-> Get(s.replyState).messageId,
            replies |-> Append(Get(s.replyState).replies, a.data)])]) }

reduceMessageChanged(s, a) ==
  LET replyState == Get(s.replyState)
      messageIndex ==
        findIndex([i \in Indices(replyState.replies) |-> replyState.replies[i].id = a.id])
  IN  IF messageIndex < 1
      THEN { Fresh([s EXCEPT !.replyState =
               Some([messageId |-> replyState.messageId,
                     replies |-> Append(replyState.replies, a.data)])]) }
      ELSE { Fresh([s EXCEPT !.replyState =
               Some([messageId |-> replyState.messageId,
                     replies |-> replaceIndex(replyState.replies, messageIndex, a.data)])]) }

(* REPLY_TO_STORY opening a thread for the reply's story when none is active. *)
reduceReplyToStory_CreatingThread(s, a) ==
  IF ~IsSome(s.replyState)
  THEN { Fresh([s EXCEPT !.replyState =
           Some([messageId |-> a.payload.storyId, replies |-> <<a.payload>>])]) }
  ELSE { Fresh([s EXCEPT !.replyState =
           Some([messageId |-> Get(s.replyState).messageId,
                 replies |-> Append(Get(s.replyState).replies, a.payload)])]) }

reduceReplyToStory(s, a) ==
  IF ~IsSome(s.replyState)
  THEN { Same(s) }
  ELSE { Fresh([s EXCEPT !.replyState =
           Some([messageId |-> Get(s.replyState).messageId,
                 replies |-> Append(Get(s.replyState).replies, a.payload)])]) }

isLiveReplyUpdate(s, a) ==
  /\ a.type = "MESSAGE_CHANGED"
  /\ IsSome(s.replyState)
  /\ Get(s.replyState).messageId = a.data.storyId

reducer(s, a) ==
  CASE a.type = "TOGGLE_VIEW" -> reduceToggleView(s)
    [] a.type = "MESSAGE_DELETED" -> reduceMessageDeleted(s, a)
    [] a.type = "STORY_CHANGED" -> reduceStoryChanged(s, a)
    [] a.type = "MARK_STORY_READ" -> reduceMarkStoryRead(s, a)
    [] a.type = "LOAD_STORY_REPLIES" -> reduceLoadStoryReplies(s, a)
    [] isLiveReplyUpdate(s, a) -> reduceMessageChanged(s, a)
    [] a.type = "REPLY_TO_STORY" -> reduceReplyToStory(s, a)
    [] a.type = "RESOLVE_ATTACHMENT_URL" -> reduceResolveAttachmentUrl(s, a)
    [] a.type = "DOE_STORY" -> reduceDOEStory(s, a)
    [] OTHER -> { Same(s) }

---------------------------------------------------------------------------
(* The store applies one dispatched delta at a time through the reducer. `last` records
   the step: by whom, with what input, the delta dispatched (NoAction when none was),
   whether the reducer returned the state object itself, how many stories there were
   before, and the collaborator calls the step made. *)

NoAction == [type |-> "(none)"]

Step(by, input, a, same, calls) ==
  [ by |-> by, input |-> input, action |-> a, same |-> same,
    was |-> [ stories |-> Len(state.stories),
              replies |-> IF IsSome(state.replyState) THEN Len(Get(state.replyState).replies) ELSE 0 ],
    calls |-> calls ]

dispatchAs(by, input, a, calls) ==
  \E r \in reducer(state, a) :
    /\ state' = r.state
    /\ last' = Step(by, input, a, r.same, calls)

dispatch(a) == dispatchAs("dispatch", None, a, {})

withoutDispatch(by, input, calls) ==
  /\ state' = state
  /\ last' = Step(by, input, NoAction, TRUE, calls)

Urls == { getAbsoluteAttachmentPath(p) : p \in Paths }

SentTo(convs) == Some([c \in convs |-> "Sent"])

(* Story payloads. DeepStories varies one message over every field the reducer reads
   (beside a second message that varies in its timestamp only); WideStories varies
   three messages over their timestamps. *)
PlainStory(id, ts) == Story(id, ts, None, "Unread", 0, FALSE, None, "L1")

DeepStories ==
  { Story("m1", ts, att, read, reacts, del, send, "L1") :
      ts \in {1, 2}, att \in Attachments, read \in ReadStatuses,
      reacts \in {0, 1}, del \in BOOLEAN, send \in { None, SentTo({"X"}) } }
  \cup { PlainStory("m2", ts) : ts \in {1, 2} }

WideStories == { PlainStory(id, ts) : id \in MessageIds, ts \in Timestamps }

NoTask == [pc |-> "idle"]

Init ==
  /\ state = getEmptyState
  /\ last = [ by |-> "init", input |-> None, action |-> NoAction, same |-> TRUE,
              was |-> [stories |-> 0, replies |-> 0], calls |-> {} ]
  /\ tasks = <<>>
  /\ env = [clock |-> 1, primary |-> TRUE]

DispatchToggleView == dispatch(ToggleView) /\ UNCHANGED <<tasks, env>>
DispatchMessageDeleted ==
  \E id \in MessageIds : dispatch(MessageDeleted(id)) /\ UNCHANGED <<tasks, env>>
DispatchStoryChanged(payloads) ==
  \E story \in payloads : dispatch(storyChanged(story)) /\ UNCHANGED <<tasks, env>>
DispatchMarkStoryRead ==
  \E id \in MessageIds : dispatch(MarkStoryRead(id)) /\ UNCHANGED <<tasks, env>>
DispatchResolveAttachmentUrl ==
  \E id \in MessageIds, url \in Urls :
    dispatch(ResolveAttachmentUrl(id, url)) /\ UNCHANGED <<tasks, env>>
DispatchDOEStory == \E id \in MessageIds : dispatch(DOEStory(id)) /\ UNCHANGED <<tasks, env>>
DispatchNoop == dispatch(Noop) /\ UNCHANGED <<tasks, env>>

(* The reducer under every stories delta, one message in depth. *)
Next ==
  \/ DispatchMessageDeleted
  \/ DispatchStoryChanged(DeepStories)
  \/ DispatchMarkStoryRead
  \/ DispatchResolveAttachmentUrl
  \/ DispatchDOEStory
  \/ DispatchNoop

Spec == Init /\ [][Next]_vars

(* The reducer under every stories delta, three messages. *)
NextWide ==
  \/ DispatchToggleView
  \/ DispatchMessageDeleted
  \/ DispatchStoryChanged(WideStories)
  \/ DispatchMarkStoryRead
  \/ DispatchDOEStory
  \/ DispatchNoop

SpecWide == Init /\ [][NextWide]_vars

---------------------------------------------------------------------------
(* The reply thread: LOAD_STORY_REPLIES, MESSAGE_CHANGED, REPLY_TO_STORY. *)

Replies == { Message(id, storyId, body) : id \in ReplyIds, storyId \in {"m1", "m2"}, body \in Bodies }

(* What getOlderMessagesByConversation fetches for a story: its replies, each once. *)
FetchedReplies(storyId) ==
  LET ofStory == { r \in Replies : r.storyId = storyId }
  IN  { <<>> } \cup { <<r>> : r \in ofStory }
        \cup { pair \in ofStory \X ofStory : pair[1].id # pair[2].id }

ThreadHasRoom ==
  IsSome(state.replyState) => Len(Get(state.replyState).replies) < MaxReplies

DispatchLoadStoryReplies ==
  \E id \in {"m1", "m2"} : \E replies \in FetchedReplies(id) :
    dispatch(LoadStoryReplies(id, replies)) /\ UNCHANGED <<tasks, env>>

DispatchMessageChanged ==
  \E data \in Replies :
    /\ ThreadHasRoom
    /\ dispatch(MessageChanged(data))
    /\ UNCHANGED <<tasks, env>>

DispatchReplyToStory ==
  \E data \in Replies :
    /\ ThreadHasRoom
    /\ dispatch(ReplyToStory(data))
    /\ UNCHANGED <<tasks, env>>

NextReplies ==
  \/ DispatchToggleView
  \/ DispatchStoryChanged({ PlainStory("m1", 1) })
  \/ DispatchMessageDeleted
  \/ DispatchLoadStoryReplies
  \/ DispatchMessageChanged
  \/ DispatchReplyToStory

SpecReplies == Init /\ [][NextReplies]_vars

---------------------------------------------------------------------------
(* deleteStoryForEveryone: a synchronous thunk, one step. *)

DAY == 86400000

(* The conversations window.ConversationController.get resolves. *)
KnownConversations == {"X", "Y"}

(* The StoryViewType a stored story is shown as: sendState lists its recipients. *)
StoryView(story) ==
  [ messageId |-> story.messageId, timestamp |-> story.timestamp,
    sendState |-> IF IsSome(story.sendStateByConversationId)
                  THEN Some(DOMAIN Get(story.sendStateByConversationId))
                  ELSE None ]

(* conversationIds once the forEach over the stored stories is done. *)
doeConversationIds(story, stories) ==
  LET sameTimestamp ==
        { i \in Indices(stories) :
            /\ stories[i].timestamp = story.timestamp
            /\ IsSome(stories[i].sendStateByConversationId) }
  IN  Get(story.sendState)
        \ UNION { DOMAIN Get(stories[i].sendStateByConversationId) : i \in sameTimestamp }

sendDeleteForEveryoneMessage(cid, story) ==
  [ call |-> "sendDeleteForEveryoneMessage", conversation |-> cid,
    deleteForEveryoneDuration |-> DAY, id |-> story.messageId, timestamp |-> story.timestamp ]

(* deleteStoryForEveryone sending to every conversation the controller knows. *)
deleteStoryForEveryone_ToEveryKnown(story) ==
  IF ~IsSome(story.sendState)
  THEN withoutDispatch("deleteStoryForEveryone", Some(story), {})
  ELSE dispatchAs("deleteStoryForEveryone", Some(story), DOEStory(story.messageId),
                  { sendDeleteForEveryoneMessage(cid, story) : cid \in KnownConversations })

deleteStoryForEveryone(story) ==
  IF ~IsSome(story.sendState)
  THEN withoutDispatch("deleteStoryForEveryone", Some(story), {})
  ELSE dispatchAs("deleteStoryForEveryone", Some(story), DOEStory(story.messageId),
                  { sendDeleteForEveryoneMessage(cid, story) :
                      cid \in doeConversationIds(story, state.stories) \cap KnownConversations })

SentStories ==
  { Story(id, ts, None, "Unread", 0, FALSE, send, list) :
      id \in {"m1", "m2"}, ts \in Timestamps, list \in DistributionLists,
      send \in { None, SentTo({"X", "Y"}), SentTo({"Y"}), SentTo({"Y", "Z"}) } }

RunDeleteStoryForEveryone ==
  \E story \in { StoryView(sent) : sent \in SentStories } :
    deleteStoryForEveryone(story) /\ UNCHANGED <<tasks, env>>

NextDOE ==
  \/ DispatchStoryChanged(SentStories)
  \/ DispatchMessageDeleted
  \/ RunDeleteStoryForEveryone

SpecDOE == Init /\ [][NextDOE]_vars

---------------------------------------------------------------------------
(* markStoryRead: an async thunk that suspends at getMessageById and at
   addNewStoryRead; other deltas are applied while it is suspended. *)

Call(name, args) == [call |-> name, args |-> args]

ReadTaskIds == {1}

(* The guards of markStoryRead without the isDownloaded one. *)
canMarkStoryRead_NotAskingDownloaded(stories, messageId) ==
  LET index == findIndex([i \in Indices(stories) |-> stories[i].messageId = messageId])
  IN  index >= 1 /\ stories[index].readStatus = "Unread"

(* Lines 221-236: the story found in the state read, and the three guards. *)
canMarkStoryRead(stories, messageId) ==
  LET index == findIndex([i \in Indices(stories) |-> stories[i].messageId = messageId])
  IN  /\ index >= 1
      /\ isDownloaded(stories[index].attachment)
      /\ stories[index].readStatus = "Unread"

StartMarkStoryRead(t, messageId) ==
  /\ tasks[t].pc \in {"idle", "done"}
  /\ tasks' = [tasks EXCEPT ![t] =
       [ pc |-> IF canMarkStoryRead(state.stories, messageId) THEN "getMessageById" ELSE "done",
         effect |-> "markStoryRead", messageId |-> messageId, stories |-> state.stories,
         message |-> None, storyReadDate |-> None, persisted |-> None,
         calls |-> <<>>, dispatched |-> 0 ]]
  /\ withoutDispatch("markStoryRead", Some(messageId), {})
  /\ UNCHANGED env

(* Lines 238-267: getMessageById answers; with a message the thunk marks it viewed,
   enqueues the jobs and calls addNewStoryRead. *)
ResumeGetMessageById(t, found) ==
  /\ tasks[t].pc = "getMessageById"
  /\ tasks[t].effect = "markStoryRead"
  /\ LET id == tasks[t].messageId
         storyReadDate == env.clock
         calls ==
           <<Call("markViewed", <<id, storyReadDate>>)>>
             \o (IF ~env.primary THEN <<Call("viewSyncJobQueue.add", <<id>>)>> ELSE <<>>)
             \o <<Call("viewedReceiptsJobQueue.add", <<id>>),
                  Call("addNewStoryRead", <<id, storyReadDate>>)>>
     IN  IF ~found
         THEN /\ tasks' = [tasks EXCEPT ![t].pc = "done", ![t].message = Some(FALSE)]
              /\ withoutDispatch("markStoryRead", Some(id), {})
         ELSE /\ tasks' = [tasks EXCEPT ![t].pc = "addNewStoryRead",
                                        ![t].message = Some(TRUE),
                                        ![t].storyReadDate = Some(storyReadDate),
                                        ![t].calls = calls]
              /\ withoutDispatch("markStoryRead", Some(id), { calls[i] : i \in Indices(calls) })
  /\ UNCHANGED env

(* addNewStoryRead's failure not ending the thunk: MARK_STORY_READ dispatched anyway. *)
ResumeAddNewStoryRead_DispatchingOnFailure(t, ok) ==
  /\ tasks[t].pc = "addNewStoryRead"
  /\ tasks' = [tasks EXCEPT ![t].pc = "done", ![t].persisted = Some(ok),
                            ![t].dispatched = tasks[t].dispatched + 1]
  /\ dispatchAs("markStoryRead", Some(tasks[t].messageId), MarkStoryRead(tasks[t].messageId), {})
  /\ UNCHANGED env

(* Lines 262-272: addNewStoryRead completes and MARK_STORY_READ is dispatched, or it
   fails and the thunk ends there. *)
ResumeAddNewStoryRead(t, ok) ==
  /\ tasks[t].pc = "addNewStoryRead"
  /\ IF ok
     THEN /\ tasks' = [tasks EXCEPT ![t].pc = "done", ![t].persisted = Some(TRUE),
                                    ![t].dispatched = tasks[t].dispatched + 1]
          /\ dispatchAs("markStoryRead", Some(tasks[t].messageId),
                        MarkStoryRead(tasks[t].messageId), {})
     ELSE /\ tasks' = [tasks EXCEPT ![t].pc = "done", ![t].persisted = Some(FALSE)]
          /\ withoutDispatch("markStoryRead", Some(tasks[t].messageId), {})
  /\ UNCHANGED env

Tick ==
  /\ env.clock < MaxClock
  /\ env' = [env EXCEPT !.clock = env.clock + 1]
  /\ UNCHANGED <<state, last, tasks>>

ReadStories ==
  { Story("m1", 1, att, read, 0, FALSE, None, "L1") : att \in Attachments, read \in ReadStatuses }

InitRead ==
  /\ state = getEmptyState
  /\ last = [ by |-> "init", input |-> None, action |-> NoAction, same |-> TRUE,
              was |-> [stories |-> 0, replies |-> 0], calls |-> {} ]
  /\ tasks = [t \in ReadTaskIds |-> NoTask]
  /\ env \in [clock : {1}, primary : BOOLEAN]

NextRead ==
  \/ \E t \in ReadTaskIds, id \in {"m1", "m2"} : StartMarkStoryRead(t, id)
  \/ \E t \in ReadTaskIds, found \in BOOLEAN : ResumeGetMessageById(t, found)
  \/ \E t \in ReadTaskIds, ok \in BOOLEAN : ResumeAddNewStoryRead(t, ok)
  \/ DispatchStoryChanged(ReadStories)
  \/ DispatchMessageDeleted
  \/ Tick

SpecRead == InitRead /\ [][NextRead]_vars

---------------------------------------------------------------------------
(* queueStoryDownload: an async thunk that suspends at getMessageById and at
   queueAttachmentDownloads. A task keeps the state it read (`stories`), the calls it
   made, the deltas it dispatched, the value its last await gave (`got`), and whether
   an error was caught inside the thunk (`caught`) or left it (`threw`). *)

EffectTaskIds == {1}

Task(pc, effect, input, stories, calls, deltas) ==
  [ pc |-> pc, effect |-> effect, input |-> input, stories |-> stories,
    calls |-> calls, deltas |-> deltas, got |-> None, caught |-> FALSE, threw |-> FALSE ]

Free(t) == tasks[t].pc \in {"idle", "done"}

(* The thunk runs to its next await, or to its end, without dispatching. *)
proceed(t, task) ==
  /\ tasks' = [tasks EXCEPT ![t] = task]
  /\ withoutDispatch(task.effect, Some(task.input), { task.calls[i] : i \in Indices(task.calls) })

(* A dispatch that does not end the thunk: its continuation may run again. *)
dispatchAndEnd_NotEnding(t, task, a) ==
  /\ tasks' = [tasks EXCEPT ![t] = [task EXCEPT !.deltas = Append(task.deltas, a)]]
  /\ dispatchAs(task.effect, Some(task.input), a, { task.calls[i] : i \in Indices(task.calls) })

(* The thunk dispatches delta `a` and ends. *)
dispatchAndEnd(t, task, a) ==
  /\ tasks' = [tasks EXCEPT ![t] = [task EXCEPT !.pc = "done", !.deltas = Append(task.deltas, a)]]
  /\ dispatchAs(task.effect, Some(task.input), a, { task.calls[i] : i \in Indices(task.calls) })

(* queueStoryDownload without the return for an attachment that is downloading. *)
StartQueueStoryDownload_AlsoWhenDownloading(t, storyId) ==
  /\ Free(t)
  /\ LET stories == state.stories
         index == findIndex([i \in Indices(stories) |-> stories[i].messageId = storyId])
         attachment == stories[index].attachment
         task == Task("done", "queueStoryDownload", storyId, stories, <<>>, <<>>)
     IN  IF index < 1 THEN proceed(t, task)
         ELSE IF ~IsSome(attachment) THEN proceed(t, task)
         ELSE IF isDownloaded(attachment)
              THEN IF IsSome(Get(attachment).path) /\ hasNotResolved(attachment)
                   THEN dispatchAndEnd(t, task,
                          ResolveAttachmentUrl(storyId,
                            getAbsoluteAttachmentPath(Get(Get(attachment).path))))
                   ELSE proceed(t, task)
         ELSE proceed(t, [task EXCEPT !.pc = "getMessageById",
                                      !.calls = <<Call("getMessageById", <<storyId>>)>>])
  /\ UNCHANGED env

(* Lines 285-326: up to the first await. *)
StartQueueStoryDownload(t, storyId) ==
  /\ Free(t)
  /\ LET stories == state.stories
         index == findIndex([i \in Indices(stories) |-> stories[i].messageId = storyId])
         attachment == stories[index].attachment
         task == Task("done", "queueStoryDownload", storyId, stories, <<>>, <<>>)
     IN  IF index < 1 THEN proceed(t, task)
         ELSE IF ~IsSome(attachment) THEN proceed(t, task)
         ELSE IF isDownloaded(attachment)
              THEN IF ~IsSome(Get(attachment).path) THEN proceed(t, task)
                   ELSE IF hasNotResolved(attachment)
                        THEN dispatchAndEnd(t, task,
                               ResolveAttachmentUrl(storyId,
                                 getAbsoluteAttachmentPath(Get(Get(attachment).path))))
                        ELSE proceed(t, task)
         ELSE IF isDownloading(attachment) THEN proceed(t, task)
         ELSE proceed(t, [task EXCEPT !.pc = "getMessageById",
                                      !.calls = <<Call("getMessageById", <<storyId>>)>>])
  /\ UNCHANGED env

(* Lines 328-341: getMessageById answers. With a message the reply context is cleared
   and the download queued; without one the NOOP marker is dispatched at once. *)
ResumeQueueGetMessageById(t, found) ==
  /\ tasks[t].pc = "getMessageById"
  /\ tasks[t].effect = "queueStoryDownload"
  /\ IF found
     THEN proceed(t, [tasks[t] EXCEPT
            !.pc = "queueAttachmentDownloads",
            !.calls = tasks[t].calls
                        \o << Call("message.set", <<"storyReplyContext", None>>),
                              Call("queueAttachmentDownloads", <<tasks[t].input>>) >>])
     ELSE dispatchAndEnd(t, tasks[t], Noop)
  /\ UNCHANGED env

(* Lines 335-341: queueAttachmentDownloads completes and the NOOP marker is dispatched,
   or it fails and the thunk ends there. *)
ResumeQueueAttachmentDownloads(t, ok) ==
  /\ tasks[t].pc = "queueAttachmentDownloads"
  /\ IF ok
     THEN dispatchAndEnd(t, tasks[t], Noop)
     ELSE proceed(t, [tasks[t] EXCEPT !.pc = "done", !.threw = TRUE])
  /\ UNCHANGED env

(* The stories queueStoryDownload meets: one message over the attachment's states, a
   downloaded one with or without a path (a text attachment has none) and with or
   without a resolved url. *)
QueueAttachments ==
  Attachments
    \cup { Some(Attachment("downloaded", None, None)),
           Some(Attachment("downloaded", Some("p"), Some(getAbsoluteAttachmentPath("p")))) }

QueueStories ==
  { Story("m1", 1, att, read, 0, FALSE, None, "L1") : att \in QueueAttachments, read \in ReadStatuses }

InitEffects ==
  /\ state = getEmptyState
  /\ last = [ by |-> "init", input |-> None, action |-> NoAction, same |-> TRUE,
              was |-> [stories |-> 0, replies |-> 0], calls |-> {} ]
  /\ tasks = [t \in EffectTaskIds |-> NoTask]
  /\ env = [clock |-> 1, primary |-> TRUE]

NextQueue ==
  \/ \E t \in EffectTaskIds, id \in {"m1", "m2"} : StartQueueStoryDownload(t, id)
  \/ \E t \in EffectTaskIds, found \in BOOLEAN : ResumeQueueGetMessageById(t, found)
  \/ \E t \in EffectTaskIds, ok \in BOOLEAN : ResumeQueueAttachmentDownloads(t, ok)
  \/ DispatchStoryChanged(QueueStories)
  \/ DispatchMessageDeleted

SpecQueue == InitEffects /\ [][NextQueue]_vars

---------------------------------------------------------------------------
(* reactToStory: an async thunk that suspends at enqueueReactionForSend. *)

Emojis == {"+1"}

(* Lines 349-355. *)
StartReactToStory(t, nextReaction, messageId) ==
  /\ Free(t)
  /\ proceed(t, Task("enqueueReactionForSend", "reactToStory", <<nextReaction, messageId>>,
                     state.stories,
                     <<Call("enqueueReactionForSend", <<messageId, nextReaction, FALSE>>)>>,
                     <<>>))
  /\ UNCHANGED env

(* reactToStory without the try/catch: a failure leaves the thunk before the dispatch. *)
ResumeEnqueueReactionForSend_NotCatching(t, ok) ==
  /\ tasks[t].pc = "enqueueReactionForSend"
  /\ IF ok
     THEN dispatchAndEnd(t, tasks[t], Noop)
     ELSE proceed(t, [tasks[t] EXCEPT !.pc = "done", !.threw = TRUE])
  /\ UNCHANGED env

(* Lines 356-364: enqueueReactionForSend completes, or throws and the catch logs the error
   and shows the toast; either way the NOOP marker is dispatched. *)
ResumeEnqueueReactionForSend(t, ok) ==
  /\ tasks[t].pc = "enqueueReactionForSend"
  /\ IF ok
     THEN dispatchAndEnd(t, tasks[t], Noop)
     ELSE dispatchAndEnd(t,
            [tasks[t] EXCEPT
               !.caught = TRUE,
               !.calls = tasks[t].calls
                           \o << Call("log.error", tasks[t].input),
                                 Call("showToast", <<"ToastReactionFailed">>) >>],
            Noop)
  /\ UNCHANGED env

ReactStories == { PlainStory(id, ts) : id \in {"m1", "m2"}, ts \in Timestamps }

NextReact ==
  \/ \E t \in EffectTaskIds, emoji \in Emojis, id \in {"m1", "m2"} : StartReactToStory(t, emoji, id)
  \/ \E t \in EffectTaskIds, ok \in BOOLEAN : ResumeEnqueueReactionForSend(t, ok)
  \/ DispatchStoryChanged(ReactStories)
  \/ DispatchMessageDeleted

(* The promise of enqueueReactionForSend settles, one way or the other, and the thunk's
   continuation is then run. *)
SpecReact ==
  /\ InitEffects
  /\ [][NextReact]_vars
  /\ WF_vars(\E t \in EffectTaskIds, ok \in BOOLEAN : ResumeEnqueueReactionForSend(t, ok))

---------------------------------------------------------------------------
(* loadStoryReplies: an async thunk that suspends at getOlderMessagesByConversation. *)

(* The conversations isGroup answers true for. *)
GroupConversations == {"Y"}

(* Lines 200-205. *)
StartLoadStoryReplies(t, conversationId, messageId) ==
  /\ Free(t)
  /\ proceed(t, Task("getOlderMessagesByConversation", "loadStoryReplies",
                     <<conversationId, messageId>>, state.stories,
                     << Call("getOlderMessagesByConversation",
                             [ conversationId |-> conversationId, limit |-> 9000,
                               storyId |-> messageId,
                               isGroup |-> conversationId \in GroupConversations ]) >>,
                     <<>>))
  /\ UNCHANGED env

(* Lines 202-213: the fetch completes and LOAD_STORY_REPLIES is dispatched with what it
   gave, or it fails and the thunk ends there. *)
ResumeGetOlderMessagesByConversation(t, ok, replies) ==
  /\ tasks[t].pc = "getOlderMessagesByConversation"
  /\ IF ok
     THEN /\ replies \in FetchedReplies(tasks[t].input[2])
          /\ dispatchAndEnd(t, [tasks[t] EXCEPT !.got = Some(replies)],
                            LoadStoryReplies(tasks[t].input[2], replies))
     ELSE /\ replies = <<>>
          /\ proceed(t, [tasks[t] EXCEPT !.pc = "done", !.threw = TRUE])
  /\ UNCHANGED env

RunLoadStoryReplies ==
  \/ \E t \in EffectTaskIds, cid \in {"X", "Y"}, id \in {"m1", "m2"} :
       StartLoadStoryReplies(t, cid, id)
  \/ \E t \in EffectTaskIds, ok \in BOOLEAN :
       \E replies \in FetchedReplies("m1") \cup FetchedReplies("m2") :
         ResumeGetOlderMessagesByConversation(t, ok, replies)

NextLoad ==
  \/ RunLoadStoryReplies
  \/ DispatchMessageChanged
  \/ DispatchReplyToStory

SpecLoad == InitEffects /\ [][NextLoad]_vars

---------------------------------------------------------------------------
(* replyToStory: an async thunk that suspends at conversation.enqueueMessageForSend. *)

(* Lines 375-393. *)
StartReplyToStory(t, conversationId, messageBody, timestamp, story) ==
  /\ Free(t)
  /\ LET task == Task("done", "replyToStory",
                      <<conversationId, messageBody, timestamp, story.messageId>>,
                      state.stories, <<>>, <<>>)
     IN  IF conversationId \notin KnownConversations
         THEN proceed(t, [task EXCEPT !.calls = <<Call("log.error", <<conversationId>>)>>])
         ELSE proceed(t, [task EXCEPT
                !.pc = "enqueueMessageForSend",
                !.calls = << Call("enqueueMessageForSend",
                                  [ conversationId |-> conversationId, body |-> messageBody,
                                    storyId |-> story.messageId, timestamp |-> timestamp ]) >>])
  /\ UNCHANGED env

(* The attributes conversation.enqueueMessageForSend gives for the message it made: a new
   id, the body and the storyId it was called with. *)
enqueueMessageForSend(id, call) == Message(id, call.args.storyId, call.args.body)

(* replyToStory dispatching whatever the enqueue gave, attributes or not. *)
ResumeEnqueueMessageForSend_NotTestingAttributes(t, outcome, id) ==
  /\ tasks[t].pc = "enqueueMessageForSend"
  /\ LET messageAttributes == enqueueMessageForSend(id, tasks[t].calls[1])
     IN  CASE outcome = "attributes" ->
                /\ ThreadHasRoom
                /\ dispatchAndEnd(t, [tasks[t] EXCEPT !.got = Some(messageAttributes)],
                                  ReplyToStory(messageAttributes))
           [] outcome = "undefined" ->
                /\ ThreadHasRoom
                /\ dispatchAndEnd(t, tasks[t], ReplyToStory(messageAttributes))
           [] outcome = "throws" -> proceed(t, [tasks[t] EXCEPT !.pc = "done", !.threw = TRUE])
  /\ UNCHANGED env

(* Lines 383-400: enqueueMessageForSend gives the attributes of the message it made, under
   a new id, and REPLY_TO_STORY is dispatched with them; or it gives nothing, or fails. *)
ResumeEnqueueMessageForSend(t, outcome, id) ==
  /\ tasks[t].pc = "enqueueMessageForSend"
  /\ LET messageAttributes == enqueueMessageForSend(id, tasks[t].calls[1])
     IN  CASE outcome = "attributes" ->
                /\ ThreadHasRoom
                /\ dispatchAndEnd(t, [tasks[t] EXCEPT !.got = Some(messageAttributes)],
                                  ReplyToStory(messageAttributes))
           [] outcome = "undefined" -> proceed(t, [tasks[t] EXCEPT !.pc = "done"])
           [] outcome = "throws" -> proceed(t, [tasks[t] EXCEPT !.pc = "done", !.threw = TRUE])
  /\ UNCHANGED env

(* replyToStory as the story viewer invokes it: for the story whose thread is loaded;
   meanwhile threads are loaded and replies change. *)
RunReplyToStory ==
  \/ \E t \in EffectTaskIds, cid \in {"X", "Z"}, body \in Bodies, id \in {"m1", "m2"} :
       /\ IsSome(state.replyState)
       /\ Get(state.replyState).messageId = id
       /\ StartReplyToStory(t, cid, body, 1, [messageId |-> id])
  \/ \E t \in EffectTaskIds, outcome \in {"attributes", "undefined", "throws"},
         id \in ReplyIds :
       ResumeEnqueueMessageForSend(t, outcome, id)

NextReply ==
  \/ RunReplyToStory
  \/ DispatchLoadStoryReplies
  \/ DispatchMessageChanged

SpecReply == InitEffects /\ [][NextReply]_vars

---------------------------------------------------------------------------
(* The six thunks together, one invocation in flight at a time, over one story and one
   reply. *)

EffectStories ==
  { Story("m1", 1, att, "Unread", 0, FALSE, send, "L1") :
      att \in { Some(Attachment("notDownloaded", None, None)),
                Some(Attachment("downloaded", Some("p"), None)) },
      send \in { None, SentTo({"X"}) } }

NextEffects ==
  \/ \E story \in { StoryView(sent) : sent \in EffectStories } :
       deleteStoryForEveryone(story) /\ UNCHANGED <<tasks, env>>
  \/ \E t \in EffectTaskIds : StartLoadStoryReplies(t, "X", "m1")
  \/ \E t \in EffectTaskIds, ok \in BOOLEAN :
       \E replies \in { <<>>, <<Message("r1", "m1", "a")>> } :
         ResumeGetOlderMessagesByConversation(t, ok, replies)
  \/ \E t \in EffectTaskIds : StartMarkStoryRead(t, "m1")
  \/ \E t \in EffectTaskIds, found \in BOOLEAN : ResumeGetMessageById(t, found)
  \/ \E t \in EffectTaskIds, ok \in BOOLEAN : ResumeAddNewStoryRead(t, ok)
  \/ \E t \in EffectTaskIds, id \in {"m1", "m2"} : StartQueueStoryDownload(t, id)
  \/ \E t \in EffectTaskIds, found \in BOOLEAN : ResumeQueueGetMessageById(t, found)
  \/ \E t \in EffectTaskIds, ok \in BOOLEAN : ResumeQueueAttachmentDownloads(t, ok)
  \/ \E t \in EffectTaskIds : StartReactToStory(t, "+1", "m1")
  \/ \E t \in EffectTaskIds, ok \in BOOLEAN : ResumeEnqueueReactionForSend(t, ok)
  \/ \E t \in EffectTaskIds, cid \in {"X", "Z"} :
       StartReplyToStory(t, cid, "a", 1, [messageId |-> "m1"])
  \/ \E t \in EffectTaskIds, outcome \in {"attributes", "undefined", "throws"} :
       ResumeEnqueueMessageForSend(t, outcome, "r2")
  \/ DispatchStoryChanged(EffectStories)

SpecEffects == InitEffects /\ [][NextEffects]_vars

---------------------------------------------------------------------------
(* Two invocations of markStoryRead, each started once while the store holds a story
   that is downloaded and unread. *)

TwoReadTaskIds == {1, 2}

UnreadStory(id) ==
  Story(id, 1, Some(Attachment("downloaded", Some("p"), None)), "Unread", 0, FALSE, None, "L1")

InitReadTwice ==
  /\ state \in { [getEmptyState EXCEPT !.stories = stories] :
                   stories \in { <<UnreadStory("m1")>>, <<UnreadStory("m1"), UnreadStory("m2")>> } }
  /\ last = [ by |-> "init", input |-> None, action |-> NoAction, same |-> TRUE,
              was |-> [stories |-> 0, replies |-> 0], calls |-> {} ]
  /\ tasks = [t \in TwoReadTaskIds |-> NoTask]
  /\ env \in [clock : {1}, primary : BOOLEAN]

NextReadTwice ==
  \/ \E t \in TwoReadTaskIds, id \in {"m1", "m2"} :
       tasks[t].pc = "idle" /\ StartMarkStoryRead(t, id)
  \/ \E t \in TwoReadTaskIds, found \in BOOLEAN : ResumeGetMessageById(t, found)
  \/ \E t \in TwoReadTaskIds, ok \in BOOLEAN : ResumeAddNewStoryRead(t, ok)
  \/ Tick

SpecReadTwice == InitReadTwice /\ [][NextReadTwice]_vars

---------------------------------------------------------------------------
(* canEditMessage of ts/util/canEditMessage.ts, a function of the message, of the
   canEditMessages flag, of the clock and of our own conversation's id, the three of
   which are in `env` here. *)

MAX_EDIT_COUNT == 10

SendStatuses == {"Failed", "Pending", "Sent", "Delivered"}

(* messages/MessageSendState: a status that is Sent or further on. *)
isSent(status) == status \in {"Sent", "Delivered"}

(* The statuses isSent accepts: the predicate someSendStatus is given. *)
SentStatuses == { status \in SendStatuses : isSent(status) }

someSendStatus(sendStateByConversationId, accepted) ==
  /\ IsSome(sendStateByConversationId)
  /\ \E c \in DOMAIN Get(sendStateByConversationId) :
       Get(sendStateByConversationId)[c] \in accepted

isOutgoing(message) == message.type = "outgoing"

isMoreRecentThan(timestamp, delta) == timestamp > env.clock - delta

(* Boolean(message.body): a body that is there and not the empty string. *)
hasBody(message) == IsSome(message.body) /\ Get(message.body) # ""

(* message.editHistory?.length ?? 0 *)
editCount(message) == IF IsSome(message.editHistory) THEN Get(message.editHistory) ELSE 0

(* canEditMessage counting edits with < where the source has <=. *)
canEditMessage_BelowMaxEditCount(message) ==
  LET result ==
        /\ env.canEditMessages
        /\ ~message.deletedForEveryone
        /\ isOutgoing(message)
        /\ isMoreRecentThan(message.sent_at, DAY)
        /\ editCount(message) < MAX_EDIT_COUNT
        /\ someSendStatus(message.sendStateByConversationId, SentStatuses)
        /\ hasBody(message)
  IN  IF result THEN TRUE
      ELSE IF message.conversationId = env.ourConversationId
           THEN env.canEditMessages /\ ~message.deletedForEveryone /\ hasBody(message)
           ELSE FALSE

canEditMessage(message) ==
  LET result ==
        /\ env.canEditMessages
        /\ ~message.deletedForEveryone
        /\ isOutgoing(message)
        /\ isMoreRecentThan(message.sent_at, DAY)
        /\ editCount(message) <= MAX_EDIT_COUNT
        /\ someSendStatus(message.sendStateByConversationId, SentStatuses)
        /\ hasBody(message)
  IN  IF result THEN TRUE
      ELSE IF message.conversationId = env.ourConversationId
           THEN env.canEditMessages /\ ~message.deletedForEveryone /\ hasBody(message)
           ELSE FALSE

(* The messages canEditMessage is asked about. Times are around one day before now:
   sent_at and the clock are such that the age is a day less one, a day, or a day and
   one. editHistory is its length: none, one below, at and one above MAX_EDIT_COUNT. *)
EditMessages ==
  [ deletedForEveryone : BOOLEAN,
    type : {"outgoing", "incoming"},
    sent_at : {DAY - 1, DAY, DAY + 1},
    editHistory : { None, Some(MAX_EDIT_COUNT - 1), Some(MAX_EDIT_COUNT), Some(MAX_EDIT_COUNT + 1) },
    sendStateByConversationId :
      { None, Some([c \in {"Y"} |-> "Pending"]), Some([c \in {"Y"} |-> "Sent"]),
        Some("Y" :> "Failed" @@ "Z" :> "Delivered") },
    body : { None, Some(""), Some("a") },
    conversationId : {"X", "Y"} ]

InitEdit ==
  /\ state = getEmptyState
  /\ last = [ by |-> "init", input |-> None, result |-> FALSE ]
  /\ tasks = <<>>
  /\ env \in [ clock : {2 * DAY}, primary : {TRUE}, canEditMessages : BOOLEAN,
                ourConversationId : {"X"} ]

AskCanEditMessage ==
  \E message \in EditMessages :
    /\ last' = [ by |-> "canEditMessage", input |-> Some(message),
                 result |-> canEditMessage(message) ]
    /\ UNCHANGED <<state, tasks, env>>

NextEdit == AskCanEditMessage

SpecEdit == InitEdit /\ [][NextEdit]_vars

---------------------------------------------------------------------------
(* The Stories component: its conversationIdToView state (in `state`), its stories
   prop (in `env`), and the callbacks that set conversationIdToView. findIndex is
   1-based here, 0 standing for the source's -1. *)

MaxNexts == 4

ViewIds == {"X", "Y", "Z"}

(* conversationStory.stories.some(story => story.isUnread), the stories of a
   conversation being the sequence of their isUnread. *)
hasUnread(conversationStory) ==
  \E i \in Indices(conversationStory.stories) : conversationStory.stories[i]

(* The index in stories of the conversation that is viewed. *)
storyIndexOf(stories, conversationIdToView) ==
  findIndex([i \in Indices(stories) |->
              IsSome(conversationIdToView) /\ stories[i].conversationId = Get(conversationIdToView)])

setConversationIdToView(by, value, nexts) ==
  /\ state' = [ conversationIdToView |-> value ]
  /\ last' = [ by |-> by, was |-> state.conversationIdToView, nexts |-> nexts ]
  /\ UNCHANGED <<tasks, env>>

(* onNextUserStories going on from the viewed conversation without asking for an
   unread story first. *)
onNextUserStories_NotLookingForUnread ==
  /\ IsSome(state.conversationIdToView)
  /\ last.nexts < MaxNexts
  /\ LET stories == env.stories
         storyIndex == storyIndexOf(stories, state.conversationIdToView)
     IN  IF storyIndex >= Len(stories) \/ storyIndex = 0
         THEN setConversationIdToView("onNextUserStories", None, last.nexts + 1)
         ELSE setConversationIdToView("onNextUserStories",
                Some(stories[storyIndex + 1].conversationId), last.nexts + 1)

(* The viewer is rendered, and with it the callback reachable, when conversationIdToView
   is set. last.nexts counts the calls in a row. *)
onNextUserStories ==
  /\ IsSome(state.conversationIdToView)
  /\ last.nexts < MaxNexts
  /\ LET stories == env.stories
         nextUnreadIndex == findIndex([i \in Indices(stories) |-> hasUnread(stories[i])])
         storyIndex == storyIndexOf(stories, state.conversationIdToView)
     IN  IF nextUnreadIndex >= 1
         THEN setConversationIdToView("onNextUserStories",
                Some(stories[nextUnreadIndex].conversationId), last.nexts + 1)
         ELSE IF storyIndex >= Len(stories) \/ storyIndex = 0
         THEN setConversationIdToView("onNextUserStories", None, last.nexts + 1)
         ELSE setConversationIdToView("onNextUserStories",
                Some(stories[storyIndex + 1].conversationId), last.nexts + 1)

onPrevUserStories ==
  /\ IsSome(state.conversationIdToView)
  /\ LET stories == env.stories
         storyIndex == storyIndexOf(stories, state.conversationIdToView)
     IN  IF storyIndex <= 1
         THEN setConversationIdToView("onPrevUserStories", state.conversationIdToView, 0)
         ELSE setConversationIdToView("onPrevUserStories",
                Some(stories[storyIndex - 1].conversationId), 0)

(* StoriesPane's onStoryClicked: whatever id was clicked is viewed. *)
onStoryClicked ==
  \E clickedIdToView \in ViewIds :
    setConversationIdToView("onStoryClicked", Some(clickedIdToView), 0)

(* The viewer's onClose. *)
onClose ==
  /\ IsSome(state.conversationIdToView)
  /\ setConversationIdToView("onClose", None, 0)

(* The stories prop: up to three conversations, each once, in any order, each with one
   read story or with a read and an unread one. *)
ConversationStories ==
  { stories \in UNION { [1..n -> [ conversationId : ViewIds,
                                   stories : { <<FALSE>>, <<FALSE, TRUE>> } ]] : n \in 0..3 } :
      \A i, j \in Indices(stories) :
        stories[i].conversationId = stories[j].conversationId => i = j }

InitView ==
  /\ state = [ conversationIdToView |-> None ]
  /\ last = [ by |-> "init", was |-> None, nexts |-> 0 ]
  /\ tasks = <<>>
  /\ env \in [ stories : ConversationStories ]

NextView == onNextUserStories \/ onPrevUserStories \/ onStoryClicked \/ onClose

SpecView == InitView /\ [][NextView]_vars

---------------------------------------------------------------------------
(* Vocabulary of the properties. *)

Applied(type) == last'.action.type = type

MessageIdsOf(stories) == { stories[i].messageId : i \in Indices(stories) }

DownloadState(att) == IF IsSome(att) THEN Get(att).download ELSE "(no attachment)"

SameRelevantFields(prevStory, newStory) ==
  /\ DownloadState(prevStory.attachment) = DownloadState(newStory.attachment)
  /\ prevStory.deletedForEveryone = newStory.deletedForEveryone
  /\ prevStory.sendStateByConversationId = newStory.sendStateByConversationId
  /\ prevStory.readStatus = newStory.readStatus
  /\ prevStory.reactions = newStory.reactions

StoredWith(stories, id) == { i \in Indices(stories) : stories[i].messageId = id }

Without(seq, k) == [i \in 1..(Len(seq) - 1) |-> IF i < k THEN seq[i] ELSE seq[i + 1]]

Occurrences(seq, x) == Cardinality({ i \in Indices(seq) : seq[i] = x })

---------------------------------------------------------------------------
(* C1, as stated: a STORY_CHANGED for a stored messageId whose payload has the same
   attachment download state, deletedForEveryone, sendStateByConversationId,
   readStatus and reactions count as the stored story returns the identical state,
   whatever the attachment state (both downloading included). *)
C1_UnchangedUpsertReturnsState ==
  [][ \A i \in Indices(state.stories) :
        ( /\ Applied("STORY_CHANGED")
          /\ state.stories[i].messageId = last'.action.payload.messageId
          /\ SameRelevantFields(state.stories[i], last'.action.payload) )
        => (last'.same /\ state' = state) ]_vars

(* C1, amended: the same, provided the payload's attachment is not downloading (a
   payload whose attachment is downloading always replaces the stored story). *)
C1_UnchangedUpsertReturnsStateUnlessDownloading ==
  [][ \A i \in Indices(state.stories) :
        ( /\ Applied("STORY_CHANGED")
          /\ state.stories[i].messageId = last'.action.payload.messageId
          /\ SameRelevantFields(state.stories[i], last'.action.payload)
          /\ DownloadState(last'.action.payload.attachment) # "downloading" )
        => (last'.same /\ state' = state) ]_vars

(* A payload that differs from the stored story (in its timestamp) was discarded. *)
C1_Witness ==
  /\ last.action.type = "STORY_CHANGED"
  /\ last.same
  /\ \E i \in Indices(state.stories) :
       /\ state.stories[i].messageId = last.action.payload.messageId
       /\ state.stories[i] # last.action.payload
       /\ SameRelevantFields(state.stories[i], last.action.payload)
       /\ isDownloaded(state.stories[i].attachment)

(* C2: after any sequence of deltas from the empty store, stories is sorted ascending
   by timestamp. *)
C2_StoriesSortedByTimestamp == IsSortedByTimestamp(state.stories)

(* C3: stories holds at most one view-model per messageId; the sequence grows only by
   a STORY_CHANGED whose messageId was not stored, and then by one. *)
C3_OneStoryPerMessageId ==
  /\ [](\A i, j \in Indices(state.stories) :
          i # j => state.stories[i].messageId # state.stories[j].messageId)
  /\ [][ Len(state'.stories) > Len(state.stories) =>
           /\ Applied("STORY_CHANGED")
           /\ last'.action.payload.messageId \notin MessageIdsOf(state.stories)
           /\ Len(state'.stories) = Len(state.stories) + 1 ]_vars

(* A STORY_CHANGED for a stored messageId was applied to a store of three stories. *)
C3_Witness ==
  /\ last.action.type = "STORY_CHANGED"
  /\ last.was.stories = 3
  /\ Len(state.stories) = 3
  /\ ~last.same

(* C4: a STORY_CHANGED whose messageId is not stored yields a sequence sorted by
   timestamp that holds the new story exactly once and otherwise exactly the stories
   it held, whatever its order before and also among equal timestamps. *)
C4_InsertKeepsSorted ==
  [][ ( /\ Applied("STORY_CHANGED")
        /\ last'.action.payload.messageId \notin MessageIdsOf(state.stories) )
      => /\ IsSortedByTimestamp(state'.stories)
         /\ Len(state'.stories) = Len(state.stories) + 1
         /\ Occurrences(state'.stories, last'.action.payload) = 1
         /\ \E k \in Indices(state'.stories) :
              /\ state'.stories[k] = last'.action.payload
              /\ \A x \in { state.stories[i] : i \in Indices(state.stories) } :
                   Occurrences(Without(state'.stories, k), x) = Occurrences(state.stories, x)
         /\ state'.isShowingStoriesView = state.isShowingStoriesView
         /\ state'.replyState = state.replyState ]_vars

(* A third story was inserted between or beside stories that share its timestamp. *)
C4_Witness ==
  /\ last.action.type = "STORY_CHANGED"
  /\ last.was.stories = 2
  /\ Len(state.stories) = 3
  /\ \E i \in Indices(state.stories) :
       /\ state.stories[i] # last.action.payload
       /\ state.stories[i].timestamp = last.action.payload.timestamp
  /\ \E i \in Indices(state.stories) :
       state.stories[i].timestamp # last.action.payload.timestamp

(* C7: MESSAGE_DELETED with an id that is not stored returns the state itself; with a
   stored id it removes that one story and keeps the others, their order, the view
   flag and the reply thread. *)
C7_MessageDeleted ==
  [][ Applied("MESSAGE_DELETED") =>
        IF last'.action.id \notin MessageIdsOf(state.stories)
        THEN last'.same /\ state' = state
        ELSE /\ Len(state'.stories) = Len(state.stories) - 1
             /\ last'.action.id \notin MessageIdsOf(state'.stories)
             /\ \E k \in Indices(state.stories) :
                  /\ state.stories[k].messageId = last'.action.id
                  /\ state'.stories = Without(state.stories, k)
             /\ state'.isShowingStoriesView = state.isShowingStoriesView
             /\ state'.replyState = state.replyState ]_vars

(* One of three stories was removed. *)
C7_Witness ==
  /\ last.action.type = "MESSAGE_DELETED"
  /\ last.was.stories = 3
  /\ Len(state.stories) = 2
  /\ state.isShowingStoriesView

(* C9: RESOLVE_ATTACHMENT_URL sets the url of the attachment of the story with that
   messageId and changes nothing else; without such a story, or without an attachment,
   it returns the state itself; applying it again changes nothing. *)
C9_ResolveAttachmentUrl ==
  [][ Applied("RESOLVE_ATTACHMENT_URL") =>
        LET hits == { i \in StoredWith(state.stories, last'.action.messageId) :
                        IsSome(state.stories[i].attachment) }
        IN  /\ hits = {} => (last'.same /\ state' = state)
            /\ \A k \in hits :
                 /\ Len(state'.stories) = Len(state.stories)
                 /\ \A i \in Indices(state.stories) : i # k => state'.stories[i] = state.stories[i]
                 /\ IsSome(state'.stories[k].attachment)
                 /\ Get(state'.stories[k].attachment).url = Some(last'.action.attachmentUrl)
                 /\ Get(state'.stories[k].attachment).download = Get(state.stories[k].attachment).download
                 /\ Get(state'.stories[k].attachment).path = Get(state.stories[k].attachment).path
                 /\ DOMAIN Get(state'.stories[k].attachment) = DOMAIN Get(state.stories[k].attachment)
                 /\ [state'.stories[k] EXCEPT !.attachment = None]
                      = [state.stories[k] EXCEPT !.attachment = None]
                 /\ state'.isShowingStoriesView = state.isShowingStoriesView
                 /\ state'.replyState = state.replyState
            /\ \A again \in reducer(state', last'.action) : again.state = state' ]_vars

(* The url of the first of two stories was resolved. *)
C9_Witness ==
  /\ last.action.type = "RESOLVE_ATTACHMENT_URL"
  /\ ~last.same
  /\ Len(state.stories) = 2
  /\ \E i \in Indices(state.stories) :
       /\ state.stories[i].messageId = last.action.messageId
       /\ isDownloaded(state.stories[i].attachment)
       /\ Get(state.stories[i].attachment).url = Some(last.action.attachmentUrl)

(* C5: deleteStoryForEveryone(A), with A itself stored, sends a retraction to exactly
   those recipients of A (that the controller resolves) who did not receive a story of
   the same timestamp under a different distribution list. *)
C5_RetractionsSkipOnlyOtherLists ==
  [][ last'.by = "deleteStoryForEveryone" =>
        \A k \in Indices(state.stories) :
          LET A == Get(last'.input)
              otherLists ==
                { i \in Indices(state.stories) :
                    /\ state.stories[i].timestamp = A.timestamp
                    /\ state.stories[i].storyDistributionListId
                         # state.stories[k].storyDistributionListId
                    /\ IsSome(state.stories[i].sendStateByConversationId) }
          IN  ( StoryView(state.stories[k]) = A /\ IsSome(A.sendState) ) =>
                { c.conversation : c \in last'.calls }
                  = ( Get(A.sendState)
                        \ UNION { DOMAIN Get(state.stories[i].sendStateByConversationId) :
                                    i \in otherLists } )
                    \cap KnownConversations ]_vars

ReadGuardHeld(task) ==
  \E i \in Indices(task.stories) :
    /\ task.stories[i].messageId = task.messageId
    /\ isDownloaded(task.stories[i].attachment)
    /\ task.stories[i].readStatus = "Unread"

ReadTasks == { t \in DOMAIN tasks : tasks[t].pc # "idle" /\ tasks[t].effect = "markStoryRead" }

DispatchedOnlyWhenGuarded ==
  \A t \in ReadTasks :
    /\ (tasks[t].calls # <<>> \/ tasks[t].dispatched > 0) => ReadGuardHeld(tasks[t])
    /\ ~ReadGuardHeld(tasks[t]) => tasks[t].pc = "done"
    /\ tasks[t].dispatched <= 1
    /\ ( last.by = "markStoryRead" /\ last.action.type = "MARK_STORY_READ" ) =>
         \E u \in ReadTasks : tasks[u].dispatched = 1 /\ tasks[u].messageId = last.action.payload

(* C6, as stated: markStoryRead makes its calls and dispatches MARK_STORY_READ only if
   the state read at its start holds the story, downloaded and unread; and whenever
   that is so, the run ends having dispatched MARK_STORY_READ. *)
C6_MarkStoryReadIffGuard ==
  /\ DispatchedOnlyWhenGuarded
  /\ \A t \in ReadTasks :
       ( tasks[t].pc = "done" /\ ReadGuardHeld(tasks[t]) ) => tasks[t].dispatched = 1

(* C6, amended: the same, where the run ends having dispatched MARK_STORY_READ
   provided also that getMessageById finds the message and addNewStoryRead completes. *)
C6_MarkStoryReadIffGuardAndMessage ==
  /\ DispatchedOnlyWhenGuarded
  /\ \A t \in ReadTasks :
       ( /\ tasks[t].pc = "done"
         /\ ReadGuardHeld(tasks[t])
         /\ tasks[t].message = Some(TRUE)
         /\ tasks[t].persisted = Some(TRUE) ) => tasks[t].dispatched = 1

(* A run found its story downloaded and unread and has dispatched MARK_STORY_READ. *)
C6_Witness ==
  /\ last.by = "markStoryRead"
  /\ last.action.type = "MARK_STORY_READ"
  /\ \E t \in ReadTasks :
       /\ tasks[t].pc = "done"
       /\ tasks[t].dispatched = 1
       /\ Len(tasks[t].calls) = 4
       /\ \E i \in Indices(state.stories) :
            /\ state.stories[i].messageId = tasks[t].messageId
            /\ state.stories[i].readStatus = "Viewed"

RepliesOf(s) == IF IsSome(s.replyState) THEN Get(s.replyState).replies ELSE <<>>

(* C8: MESSAGE_CHANGED, when the active thread's messageId is the message's storyId,
   appends a reply whose id is new and replaces in place one whose id is there; with
   no thread or another story's thread it leaves the state as it is; stories is never
   changed. *)
C8_MessageChanged ==
  [][ Applied("MESSAGE_CHANGED") =>
        LET data == last'.action.data
            replies == RepliesOf(state)
        IN  /\ state'.stories = state.stories
            /\ state'.isShowingStoriesView = state.isShowingStoriesView
            /\ IF IsSome(state.replyState) /\ Get(state.replyState).messageId = data.storyId
               THEN /\ IsSome(state'.replyState)
                    /\ Get(state'.replyState).messageId = Get(state.replyState).messageId
                    /\ IF \A i \in Indices(replies) : replies[i].id # last'.action.id
                       THEN RepliesOf(state') = Append(replies, data)
                       ELSE /\ Len(RepliesOf(state')) = Len(replies)
                            /\ \E k \in Indices(replies) :
                                 /\ replies[k].id = last'.action.id
                                 /\ RepliesOf(state')[k] = data
                                 /\ \A i \in Indices(replies) :
                                      i # k => RepliesOf(state')[i] = replies[i]
               ELSE last'.same /\ state' = state ]_vars

(* The first of two replies was replaced in place by a changed version of itself. *)
C8_Witness ==
  /\ last.action.type = "MESSAGE_CHANGED"
  /\ ~last.same
  /\ last.was.replies = 2
  /\ Len(RepliesOf(state)) = 2
  /\ RepliesOf(state)[1] = last.action.data
  /\ RepliesOf(state)[2].id # last.action.id
  /\ Len(state.stories) = 1

(* C10: the active thread holds at most one reply per message id. *)
C10_OneReplyPerMessageId ==
  \A i, j \in Indices(RepliesOf(state)) :
    i # j => RepliesOf(state)[i].id # RepliesOf(state)[j].id

(* C11: whatever deltas are applied while a markStoryRead is suspended, the
   MARK_STORY_READ it dispatches changes a story's readStatus only when, in the state
   the delta is applied to, that story's attachment is downloaded and its readStatus is
   Unread. *)
C11_MarkStoryReadGuardHoldsWhenApplied ==
  [][ ( Applied("MARK_STORY_READ") /\ last'.by = "markStoryRead" ) =>
        \A i \in Indices(state.stories) :
          ( /\ state.stories[i].messageId = last'.action.payload
            /\ state'.stories[i].readStatus # state.stories[i].readStatus )
          => ( /\ isDownloaded(state.stories[i].attachment)
               /\ state.stories[i].readStatus = "Unread" ) ]_vars

(* C12: a markStoryRead that got its message calls markViewed with the read time it
   captured, then adds a view-sync job exactly when this device is not the primary one,
   then adds the viewed-receipt job once, then calls addNewStoryRead with the same read
   time; it dispatches MARK_STORY_READ only once addNewStoryRead has completed, and
   never when addNewStoryRead failed. *)
C12_MarkStoryReadStepOrder ==
  \A t \in ReadTasks :
    LET task == tasks[t]
        names == [i \in Indices(task.calls) |-> task.calls[i].call]
    IN  /\ task.calls # <<>> =>
              /\ task.message = Some(TRUE)
              /\ IsSome(task.storyReadDate)
              /\ names = IF env.primary
                         THEN <<"markViewed", "viewedReceiptsJobQueue.add", "addNewStoryRead">>
                         ELSE <<"markViewed", "viewSyncJobQueue.add",
                                "viewedReceiptsJobQueue.add", "addNewStoryRead">>
              /\ task.calls[1].args = <<task.messageId, Get(task.storyReadDate)>>
              /\ task.calls[Len(task.calls)].args = <<task.messageId, Get(task.storyReadDate)>>
        /\ task.pc = "addNewStoryRead" => (task.calls # <<>> /\ task.dispatched = 0)
        /\ IsSome(task.persisted) => task.calls # <<>>
        /\ task.dispatched > 0 => task.persisted = Some(TRUE)
        /\ task.persisted = Some(FALSE) => (task.pc = "done" /\ task.dispatched = 0)

(* On a device that is not the primary one, a run captured its read time, the clock
   moved on while addNewStoryRead was pending, and MARK_STORY_READ was dispatched. *)
C12_Witness ==
  /\ ~env.primary
  /\ last.by = "markStoryRead"
  /\ last.action.type = "MARK_STORY_READ"
  /\ \E t \in ReadTasks :
       /\ tasks[t].persisted = Some(TRUE)
       /\ tasks[t].dispatched = 1
       /\ IsSome(tasks[t].storyReadDate)
       /\ Get(tasks[t].storyReadDate) < env.clock
       /\ tasks[t].calls[2].call = "viewSyncJobQueue.add"

TasksOf(effect) == { t \in DOMAIN tasks : tasks[t].pc # "idle" /\ tasks[t].effect = effect }

Called(task, name) == \E i \in Indices(task.calls) : task.calls[i].call = name

(* C14: queueStoryDownload(storyId), by the story it read: absent, without attachment
   or downloading, it dispatches nothing and queues no download; downloaded, it queues
   no download and dispatches RESOLVE_ATTACHMENT_URL, for that storyId and with the
   absolute path, exactly when the attachment has a path and no url yet; it queues the
   download and dispatches the NOOP marker only for an attachment that is neither
   downloaded nor downloading. *)
C14_QueueStoryDownload ==
  \A t \in TasksOf("queueStoryDownload") :
    LET task == tasks[t]
        index == findIndex([i \in Indices(task.stories) |->
                              task.stories[i].messageId = task.input])
        found == index >= 1
        attachment == task.stories[index].attachment
        queued == Called(task, "queueAttachmentDownloads")
    IN  /\ ( ~found \/ ~IsSome(attachment) \/ isDownloading(attachment) ) =>
              (task.pc = "done" /\ task.deltas = <<>> /\ ~queued)
        /\ ( found /\ isDownloaded(attachment) ) =>
              /\ task.pc = "done"
              /\ ~queued
              /\ IF IsSome(Get(attachment).path) /\ ~IsSome(Get(attachment).url)
                 THEN task.deltas =
                        << ResolveAttachmentUrl(task.input,
                             getAbsoluteAttachmentPath(Get(Get(attachment).path))) >>
                 ELSE task.deltas = <<>>
        /\ ( queued \/ task.deltas = <<Noop>> ) =>
              /\ found
              /\ IsSome(attachment)
              /\ ~isDownloaded(attachment)
              /\ ~isDownloading(attachment)
        /\ Len(task.deltas) <= 1

(* queueStoryDownload resolved the url of a downloaded story, which now has it. *)
C14_Witness ==
  /\ last.by = "queueStoryDownload"
  /\ last.action.type = "RESOLVE_ATTACHMENT_URL"
  /\ ~last.same
  /\ \E i \in Indices(state.stories) :
       /\ state.stories[i].messageId = last.action.messageId
       /\ Get(state.stories[i].attachment).url
            = Some(getAbsoluteAttachmentPath(Get(Get(state.stories[i].attachment).path)))

(* C15: every reactToStory ends by dispatching the NOOP marker, once, whether
   enqueueReactionForSend completes or throws; on a failure it shows the
   reaction-failed toast and the error does not leave the thunk; and no step of the
   effect changes the store: the reducer returns the state itself for the marker. *)
C15_ReactToStory ==
  /\ [](\A t \in TasksOf("reactToStory") :
          /\ ~tasks[t].threw
          /\ tasks[t].caught <=> Called(tasks[t], "showToast")
          /\ tasks[t].pc = "enqueueReactionForSend" => (tasks[t].deltas = <<>> /\ ~tasks[t].caught)
          /\ tasks[t].pc = "done" => tasks[t].deltas = <<Noop>>)
  /\ [][ last'.by = "reactToStory" =>
           /\ state' = state
           /\ last'.same
           /\ last'.action \in {NoAction, Noop}
           /\ \A r \in reducer(state, Noop) : r = Same(state) ]_vars
  /\ \A t \in EffectTaskIds :
       (tasks[t].pc = "enqueueReactionForSend") ~> (tasks[t].pc = "done")

(* enqueueReactionForSend threw, the toast was shown and the marker dispatched, with
   stories in the store. *)
C15_Witness ==
  /\ last.by = "reactToStory"
  /\ last.action = Noop
  /\ Len(state.stories) = 2
  /\ \E t \in TasksOf("reactToStory") :
       /\ tasks[t].pc = "done"
       /\ tasks[t].caught
       /\ Called(tasks[t], "showToast")
       /\ tasks[t].deltas = <<Noop>>

Dispatched(task) == IF task.effect = "markStoryRead" THEN task.dispatched ELSE Len(task.deltas)

Running(t) == tasks[t].pc \notin {"idle", "done"}

(* C13: an invocation of a thunk dispatches at most one delta, and stories and
   replyState change only in a step that applies a dispatched delta through the
   reducer: not in a thunk's step to its next await, not when it returns early. *)
C13_EffectsDispatchAtMostOnce ==
  /\ [](\A t \in DOMAIN tasks : tasks[t].pc # "idle" => Dispatched(tasks[t]) <= 1)
  /\ [][ ( state'.stories # state.stories \/ state'.replyState # state.replyState ) =>
           /\ last'.action # NoAction
           /\ ~last'.same
           /\ \E r \in reducer(state, last'.action) : r.state = state' ]_vars
  /\ [][ last'.action = NoAction => state' = state ]_vars
  /\ [][ \A t \in DOMAIN tasks :
           ( Running(t)' /\ last'.by = tasks'[t].effect ) => state' = state ]_vars
  /\ [][ \A t \in DOMAIN tasks :
           ( /\ tasks'[t].pc = "done"
             /\ last'.by = tasks'[t].effect
             /\ Dispatched(tasks'[t]) = 0 ) => state' = state ]_vars

(* A replyToStory that was suspended while the store changed has dispatched its one
   delta, which the reducer applied to the thread. *)
C13_Witness ==
  /\ last.by = "replyToStory"
  /\ last.action.type = "REPLY_TO_STORY"
  /\ ~last.same
  /\ \E t \in TasksOf("replyToStory") :
       /\ tasks[t].pc = "done"
       /\ Len(tasks[t].deltas) = 1
       /\ tasks[t].stories # state.stories
  /\ Len(RepliesOf(state)) = 2

(* C16: a STORY_CHANGED for a stored messageId keeps the length of stories, every story
   of another messageId at its position, isShowingStoriesView and replyState: it
   returns the state itself or puts the payload at the index of that messageId. *)
C16_StoryChangedInPlace ==
  [][ ( /\ Applied("STORY_CHANGED")
        /\ last'.action.payload.messageId \in MessageIdsOf(state.stories) )
      => /\ Len(state'.stories) = Len(state.stories)
         /\ \A i \in Indices(state.stories) :
              state.stories[i].messageId # last'.action.payload.messageId
                => state'.stories[i] = state.stories[i]
         /\ state'.isShowingStoriesView = state.isShowingStoriesView
         /\ state'.replyState = state.replyState
         /\ \/ last'.same /\ state' = state
            \/ /\ ~last'.same
               /\ \A i \in Indices(state.stories) :
                    state.stories[i].messageId = last'.action.payload.messageId
                      => state'.stories[i] = last'.action.payload ]_vars

(* The second of two stories was overwritten by a payload of an earlier timestamp than
   the first's, and stayed second. *)
C16_Witness ==
  /\ last.action.type = "STORY_CHANGED"
  /\ ~last.same
  /\ last.was.stories = 2
  /\ Len(state.stories) = 2
  /\ state.stories[2] = last.action.payload
  /\ state.stories[2].timestamp < state.stories[1].timestamp

(* C17: MARK_STORY_READ(id) sets the readStatus of the story with that messageId to
   Viewed and changes nothing else: not its other fields, not the other stories, the
   order, the length, replyState or isShowingStoriesView; without such a story the
   store's content is as before; applied twice it gives what it gives applied once. *)
C17_MarkStoryRead ==
  [][ Applied("MARK_STORY_READ") =>
        /\ Len(state'.stories) = Len(state.stories)
        /\ \A i \in Indices(state.stories) :
             state'.stories[i] =
               IF state.stories[i].messageId = last'.action.payload
               THEN [state.stories[i] EXCEPT !.readStatus = "Viewed"]
               ELSE state.stories[i]
        /\ state'.isShowingStoriesView = state.isShowingStoriesView
        /\ state'.replyState = state.replyState
        /\ last'.action.payload \notin MessageIdsOf(state.stories) => state' = state
        /\ \A again \in reducer(state', last'.action) : again.state = state' ]_vars

(* Of two stories the one that only MARK_STORY_READ can make Viewed is Viewed, the
   other, with a downloaded attachment and a reaction, is as it was. *)
C17_Witness ==
  /\ last.action = MarkStoryRead("m2")
  /\ Len(state.stories) = 2
  /\ \E i, j \in Indices(state.stories) :
       /\ state.stories[i].messageId = "m2"
       /\ state.stories[i].readStatus = "Viewed"
       /\ state.stories[j].messageId = "m1"
       /\ state.stories[j].readStatus = "Unread"
       /\ state.stories[j].reactions = 1
       /\ isDownloaded(state.stories[j].attachment)

(* C18: deleteStoryForEveryone(story) with no sendState sends nothing, dispatches
   nothing and leaves the store; otherwise it dispatches one DOE_STORY for
   story.messageId, by which the story of that messageId gets deletedForEveryone = true
   and nothing else changes, the state itself being returned when no story has that
   messageId; and it sends retractions, of that story, only to recipients of the
   story's sendState. *)
C18_DeleteStoryForEveryone ==
  [][ last'.by = "deleteStoryForEveryone" =>
        LET story == Get(last'.input)
        IN  IF ~IsSome(story.sendState)
            THEN last'.calls = {} /\ last'.action = NoAction /\ state' = state
            ELSE /\ last'.action = DOEStory(story.messageId)
                 /\ \A c \in last'.calls :
                      /\ c.call = "sendDeleteForEveryoneMessage"
                      /\ c.conversation \in Get(story.sendState)
                      /\ c.id = story.messageId
                      /\ c.timestamp = story.timestamp
                      /\ c.deleteForEveryoneDuration = DAY
                 /\ Len(state'.stories) = Len(state.stories)
                 /\ \A i \in Indices(state.stories) :
                      state'.stories[i] =
                        IF state.stories[i].messageId = story.messageId
                        THEN [state.stories[i] EXCEPT !.deletedForEveryone = TRUE]
                        ELSE state.stories[i]
                 /\ state'.isShowingStoriesView = state.isShowingStoriesView
                 /\ state'.replyState = state.replyState
                 /\ story.messageId \notin MessageIdsOf(state.stories)
                      => (last'.same /\ state' = state) ]_vars

(* A retraction was sent and, of two stories, the first was marked deleted. *)
C18_Witness ==
  /\ last.by = "deleteStoryForEveryone"
  /\ last.action.type = "DOE_STORY"
  /\ ~last.same
  /\ last.calls # {}
  /\ Len(state.stories) = 2
  /\ state.stories[1].messageId = last.action.payload
  /\ state.stories[1].deletedForEveryone
  /\ ~state.stories[2].deletedForEveryone

(* C19: a loadStoryReplies dispatches once, when its fetch has completed, a
   LOAD_STORY_REPLIES with its own messageId and the replies fetched; LOAD_STORY_REPLIES
   makes replyState exactly that messageId with those replies, whatever thread and
   replies there were, and keeps stories and isShowingStoriesView; there is never more
   than one thread. *)
C19_LoadStoryReplies ==
  /\ [](/\ Len(state.replyState) <= 1
        /\ \A t \in TasksOf("loadStoryReplies") :
             /\ tasks[t].pc # "done" => tasks[t].deltas = <<>>
             /\ tasks[t].pc = "done" =>
                  IF tasks[t].threw
                  THEN tasks[t].deltas = <<>>
                  ELSE /\ IsSome(tasks[t].got)
                       /\ tasks[t].deltas =
                            <<LoadStoryReplies(tasks[t].input[2], Get(tasks[t].got))>>)
  /\ [][ Applied("LOAD_STORY_REPLIES") =>
           /\ state'.replyState =
                Some([ messageId |-> last'.action.messageId, replies |-> last'.action.replies ])
           /\ state'.stories = state.stories
           /\ state'.isShowingStoriesView = state.isShowingStoriesView
           /\ last'.by = "loadStoryReplies" =>
                \E t \in DOMAIN tasks :
                  /\ tasks[t].pc = "getOlderMessagesByConversation"
                  /\ tasks'[t].pc = "done"
                  /\ last'.action.messageId = tasks[t].input[2] ]_vars

(* The thread of one story, with two replies appended, was replaced by the thread of
   another story with the one reply fetched for it. *)
C19_Witness ==
  /\ last.by = "loadStoryReplies"
  /\ last.action.type = "LOAD_STORY_REPLIES"
  /\ last.was.replies = 2
  /\ IsSome(state.replyState)
  /\ Get(state.replyState).messageId = "m2"
  /\ Len(RepliesOf(state)) = 1
  /\ RepliesOf(state)[1].storyId = "m2"

(* C20: REPLY_TO_STORY puts the reply last in the active thread's replies, keeping the
   thread's messageId and the replies there were, in order; with no thread it returns
   the state itself and makes no thread; stories is never changed. *)
C20_ReplyToStory ==
  [][ Applied("REPLY_TO_STORY") =>
        /\ state'.stories = state.stories
        /\ state'.isShowingStoriesView = state.isShowingStoriesView
        /\ IF IsSome(state.replyState)
           THEN /\ ~last'.same
                /\ IsSome(state'.replyState)
                /\ Get(state'.replyState).messageId = Get(state.replyState).messageId
                /\ DOMAIN Get(state'.replyState) = DOMAIN Get(state.replyState)
                /\ Len(RepliesOf(state')) = Len(RepliesOf(state)) + 1
                /\ RepliesOf(state')[Len(RepliesOf(state'))] = last'.action.payload
                /\ \A i \in Indices(RepliesOf(state)) : RepliesOf(state')[i] = RepliesOf(state)[i]
           ELSE last'.same /\ state' = state ]_vars

(* A reply was put third in a thread of two different replies, beside a stored story. *)
C20_Witness ==
  /\ last.action.type = "REPLY_TO_STORY"
  /\ ~last.same
  /\ last.was.replies = 2
  /\ Len(RepliesOf(state)) = 3
  /\ RepliesOf(state)[3] = last.action.payload
  /\ RepliesOf(state)[1] # RepliesOf(state)[2]
  /\ Len(state.stories) = 1

EnqueueCalls(task) ==
  { i \in Indices(task.calls) : task.calls[i].call = "enqueueMessageForSend" }

(* C21: a replyToStory whose conversation the controller does not resolve enqueues no
   message and dispatches nothing; otherwise it enqueues one message, with the story's
   messageId as storyId and the timestamp given, and it dispatches REPLY_TO_STORY
   exactly when the enqueue gave attributes, and then with those as payload. *)
C21_ReplyToStory ==
  \A t \in TasksOf("replyToStory") :
    LET task == tasks[t]
        conversationId == task.input[1]
        timestamp == task.input[3]
        storyId == task.input[4]
    IN  IF conversationId \notin KnownConversations
        THEN task.pc = "done" /\ EnqueueCalls(task) = {} /\ task.deltas = <<>>
        ELSE /\ Cardinality(EnqueueCalls(task)) = 1
             /\ \A i \in EnqueueCalls(task) :
                  /\ task.calls[i].args.storyId = storyId
                  /\ task.calls[i].args.timestamp = timestamp
                  /\ task.calls[i].args.conversationId = conversationId
             /\ task.pc # "done" => (task.deltas = <<>> /\ task.got = None)
             /\ task.pc = "done" =>
                  IF IsSome(task.got)
                  THEN task.deltas = <<ReplyToStory(Get(task.got))>>
                  ELSE task.deltas = <<>>

(* The enqueue gave attributes, and the reply dispatched with them is the second of the
   thread. *)
C21_Witness ==
  /\ last.by = "replyToStory"
  /\ last.action.type = "REPLY_TO_STORY"
  /\ last.was.replies = 1
  /\ Len(RepliesOf(state)) = 2
  /\ \E t \in TasksOf("replyToStory") :
       /\ tasks[t].pc = "done"
       /\ tasks[t].got = Some(RepliesOf(state)[2])
       /\ tasks[t].input[2] = RepliesOf(state)[2].body

(* C22: a reply that MESSAGE_CHANGED or REPLY_TO_STORY adds to the active thread has
   the thread's messageId as its storyId, also when the replyToStory that sent it was
   started before a LOAD_STORY_REPLIES replaced the thread by another story's. *)
C22_RepliesBelongToThread ==
  [][ ( /\ Applied("MESSAGE_CHANGED") \/ Applied("REPLY_TO_STORY")
        /\ IsSome(state.replyState)
        /\ Len(RepliesOf(state')) > Len(RepliesOf(state)) )
      => RepliesOf(state')[Len(RepliesOf(state'))].storyId = Get(state.replyState).messageId ]_vars

ReceiptsFor(id) ==
  { t \in ReadTasks :
      /\ tasks[t].messageId = id
      /\ \E i \in Indices(tasks[t].calls) : tasks[t].calls[i].call = "viewedReceiptsJobQueue.add" }

StoryReadsFor(id) ==
  { t \in ReadTasks : tasks[t].messageId = id /\ tasks[t].persisted = Some(TRUE) }

(* C23: of two invocations of markStoryRead for one story that is unread when the first
   starts, however they interleave, at most one adds the viewed-receipt job and at most
   one has its story-read record persisted. *)
C23_OneReceiptPerStory ==
  \A id \in MessageIds :
    /\ Cardinality(ReceiptsFor(id)) <= 1
    /\ Cardinality(StoryReadsFor(id)) <= 1

(* C24: a story whose deletedForEveryone is true keeps it true for as long as it is in
   stories, whatever delta is applied: also a STORY_CHANGED for its messageId that
   carries deletedForEveryone = false with another send state, read status or
   reactions count. *)
C24_DeletedForEveryoneStays ==
  [][ \A i \in Indices(state.stories) : \A j \in Indices(state'.stories) :
        ( /\ state.stories[i].deletedForEveryone
          /\ state'.stories[j].messageId = state.stories[i].messageId )
        => state'.stories[j].deletedForEveryone ]_vars

(* C25: canEditMessage(message) is true only if editing is enabled, the message is not
   deleted for everyone and its body is not empty. For a message outside our own
   conversation it is true exactly when, on top of these, the message is outgoing, was
   sent less than one day ago, has at most 10 entries of edit history and one recipient's
   send state at least is sent; for a message in our own conversation it is true exactly
   when the three base conditions hold, whatever its age, edits, direction, send state. *)
C25_CanEditMessage ==
  last.by = "canEditMessage" =>
    LET message == Get(last.input)
        base == /\ env.canEditMessages
                /\ ~message.deletedForEveryone
                /\ IsSome(message.body) /\ Get(message.body) # ""
        sent == /\ IsSome(message.sendStateByConversationId)
                /\ \E c \in DOMAIN Get(message.sendStateByConversationId) :
                     Get(message.sendStateByConversationId)[c] \in {"Sent", "Delivered"}
        edits == IF IsSome(message.editHistory) THEN Get(message.editHistory) ELSE 0
        more == /\ message.type = "outgoing"
                /\ env.clock - message.sent_at < DAY
                /\ edits <= 10
                /\ sent
    IN  /\ last.result => base
        /\ message.conversationId # env.ourConversationId => (last.result <=> base /\ more)
        /\ message.conversationId = env.ourConversationId => (last.result <=> base)

(* An outgoing message to someone else with exactly 10 edits, sent a millisecond less
   than a day ago, may be edited. *)
C25_Witness ==
  /\ last.by = "canEditMessage"
  /\ last.result
  /\ Get(last.input).conversationId # env.ourConversationId
  /\ Get(last.input).editHistory = Some(10)
  /\ env.clock - Get(last.input).sent_at = DAY - 1

(* The statement of C26 with `bound` for the number of calls of onNextUserStories in a
   row after which, without unread stories, the viewer is closed. *)
StoriesNavigation(bound) ==
  LET stories == env.stories
      view == state.conversationIdToView
      unread == { i \in Indices(stories) :
                    \E k \in Indices(stories[i].stories) : stories[i].stories[k] }
      at(v) == { i \in Indices(stories) : IsSome(v) /\ stories[i].conversationId = Get(v) }
  IN  /\ last.by = "onNextUserStories" =>
           IF unread # {}
           THEN \E i \in unread :
                  /\ \A j \in unread : i <= j
                  /\ view = Some(stories[i].conversationId)
           ELSE IF \E i \in at(last.was) : i < Len(stories)
           THEN /\ \E i \in at(last.was) : view = Some(stories[i + 1].conversationId)
                /\ \A i \in at(last.was) : \E j \in at(view) : j > i
           ELSE view = None
      /\ (unread = {} /\ last.nexts >= bound) => view = None
      /\ last.by = "onPrevUserStories" =>
           /\ IsSome(view)
           /\ IF \E i \in at(last.was) : i > 1
              THEN \E i \in at(last.was) : view = Some(stories[i - 1].conversationId)
              ELSE view = last.was

(* C26 as stated: onNextUserStories views the first conversation with an unread story
   when there is one; otherwise the conversation after the viewed one, and it closes the
   viewer when the viewed one is the last or not in the list. So, without unread
   stories, calls of onNextUserStories in a row go up the list and the viewer is closed
   after at most as many of them as there are conversations. onPrevUserStories views
   the conversation before the viewed one, or the same one when that is the first or
   not in the list, and never closes the viewer. *)
C26_AsStated == StoriesNavigation(Len(env.stories))

(* C26: as stated, but the viewer is closed after at most as many calls of
   onNextUserStories as there are conversations or, with no conversation in the list,
   after one call. *)
C26_StoriesNavigation ==
  StoriesNavigation(IF Len(env.stories) = 0 THEN 1 ELSE Len(env.stories))

(* With an empty list, the viewer was open and one call of onNextUserStories closed it. *)
C26_Witness ==
  /\ Len(env.stories) = 0
  /\ last.by = "onNextUserStories"
  /\ IsSome(last.was)
  /\ last.nexts = 1
  /\ state.conversationIdToView = None

===========================================================================
